---- MODULE Spec2Model ----
(***************************************************************************)
(* A model of the CRM mutation layer (crm/schema.py) over a relational     *)
(* store: CreateCustomer, BulkCreateCustomers, CreateProduct, CreateOrder. *)
(* Every database statement of a mutation is one step, so that calls of    *)
(* concurrent requests interleave between statements.                      *)
(*                                                                         *)
(* Text is a sequence of ASCII codes, so that case folding and the         *)
(* lexicographic order of strings are computed, not assumed.  Money is an  *)
(* integer number of cents (Decimal with two places).                      *)
(***************************************************************************)
EXTENDS Integers, Sequences, FiniteSets, TLC

VARIABLES
    customers,   \* committed Customer rows, in insertion order
    custSeq,     \* last primary key handed out for Customer
    products,    \* committed Product rows, in insertion order
    orders,      \* committed Order rows, in insertion order
    links,       \* committed Order<->Product links: set of <<order id, product id>>
    orderSeq,    \* last primary key handed out for Order
    clock,       \* timezone.now(), in ticks
    pc,          \* per request worker: the statement it is about to run
    inp,         \* per request worker: the mutation's input
    loc,         \* per request worker: the mutation's local variables
    tx,          \* per request worker: writes of its open transaction
    res,         \* per request worker: the last mutation result returned
    jobs,        \* per background job: its position, runs so far and last exit
    logs         \* per background job: the lines of its log file

vars == <<customers, custSeq, products, orders, links, orderSeq, clock,
          pc, inp, loc, tx, res, jobs, logs>>

store == <<customers, custSeq, products, orders, links, orderSeq>>

\* The state of the background jobs.
bg == <<jobs, logs>>

----------------------------------------------------------------------------
(* Bounds of the model *)

MaxBatch == 3
MaxIds == 3

----------------------------------------------------------------------------
(* Text *)

\* ASCII codes used below: 43 '+', 45 '-', 48..57 digits, 64 '@',
\* 65..90 upper case, 97..122 lower case.
LowerChar(c) == IF c >= 65 /\ c <= 90 THEN c + 32 ELSE c

Lower(s) == [i \in DOMAIN s |-> LowerChar(s[i])]

IsDigit(c) == c >= 48 /\ c <= 57

\* Python's None for an optional text argument.
PyNone == <<0>>

\* `x or None` for a text argument: None and "" both become None.
OrNone(s) == IF s = PyNone \/ s = <<>> THEN PyNone ELSE s

----------------------------------------------------------------------------
(* The Customer model: field validators and the unique email *)

\* EmailField: one '@' with text on both sides.
EmailSyntaxOK(e) ==
    /\ Cardinality({i \in DOMAIN e : e[i] = 64}) = 1
    /\ Len(e) >= 3
    /\ e[1] # 64
    /\ e[Len(e)] # 64

\* Phone: "+<digits>" or "digits-digits-digits".
PhoneSyntaxOK(ph) ==
    \/ /\ Len(ph) >= 2
       /\ ph[1] = 43
       /\ \A i \in 2..Len(ph) : IsDigit(ph[i])
    \/ /\ Len(ph) >= 5
       /\ \A i \in DOMAIN ph : IsDigit(ph[i]) \/ ph[i] = 45
       /\ Cardinality({i \in DOMAIN ph : ph[i] = 45}) = 2
       /\ ph[1] # 45
       /\ ph[Len(ph)] # 45
       /\ \A i \in 1..(Len(ph) - 1) : ~(ph[i] = 45 /\ ph[i + 1] = 45)

\* The unique email of Customer: the rows an email collides with are those
\* equal to it ignoring case.
EmailCollidesExact(rows, email) ==
    \E i \in DOMAIN rows : rows[i].email = email

EmailCollides(rows, email) ==
    \E i \in DOMAIN rows : Lower(rows[i].email) = Lower(email)

\* The unique index on Customer.email rejects an INSERT (IntegrityError).
UniqueEmailViolated(rows, email) == EmailCollides(rows, email)

\* An error message: its literal text, and the text value formatted into it
\* (<<>> when there is none).
Msg(text, arg) == [text |-> text, arg |-> arg]

\* f"[{idx}] " in front of a message.
Indexed(idx, m) == [idx |-> idx, text |-> m.text, arg |-> m.arg]

\* f"{fld}: {msg}"
Human(fld, msg) == Msg(fld \o ": " \o msg, <<>>)

\* Model.full_clean(): clean_fields in field order, then validate_unique on
\* the fields that passed; the result is message_dict, flattened as the
\* mutations flatten it.
CustomerFieldErrors(c) ==
    (IF c.name = <<>> THEN <<Human("name", "This field cannot be blank.")>> ELSE <<>>)
    \o (IF c.email = <<>> THEN <<Human("email", "This field cannot be blank.")>>
        ELSE IF ~EmailSyntaxOK(c.email)
             THEN <<Human("email", "Enter a valid email address.")>>
             ELSE <<>>)
    \o (IF c.phone # PyNone /\ ~PhoneSyntaxOK(c.phone)
        THEN <<Human("phone", "Enter a valid phone number.")>>
        ELSE <<>>)

CustomerFullClean(rows, c) ==
    CustomerFieldErrors(c)
    \o (IF c.email # <<>> /\ EmailSyntaxOK(c.email) /\ EmailCollides(rows, c.email)
        THEN <<Human("email", "Customer with this Email already exists.")>>
        ELSE <<>>)

----------------------------------------------------------------------------
(* Requests: each worker serves one mutation call, and the calls of different
   workers interleave between database statements (or run one after the
   other, when one worker finishes before the next starts). *)

Workers == {"w1", "w2"}

None == [none |-> TRUE]

NoResult == [op |-> "none"]

NoTx == [customers |-> <<>>, orders |-> <<>>, links |-> {}]

\* What worker p reads: the committed rows and the writes of its own open
\* transaction.
VisibleCustomers(p) == customers \o tx[p].customers

Return(p, r) ==
    /\ res' = [res EXCEPT ![p] = r]
    /\ pc' = [pc EXCEPT ![p] = "done"]

----------------------------------------------------------------------------
(* CreateCustomer.mutate *)

EmailExact(rows, email) == EmailCollidesExact(rows, email)

\* Customer.objects.filter(email__iexact=input.email).exists()
CreateCustomerEmailTaken(rows, email) ==
    \E i \in DOMAIN rows : Lower(rows[i].email) = Lower(email)

CustomerFailed(errs) ==
    [op |-> "CreateCustomer", customer |-> None, message |-> "Failed", errors |-> errs]

CustomerCreated(row) ==
    [op |-> "CreateCustomer", customer |-> row, message |-> "Customer created",
     errors |-> <<>>]

\* Customer(name=..., email=..., phone=(input.phone or None))
NewCustomer(in) == [name |-> in.name, email |-> in.email, phone |-> OrNone(in.phone)]

\* INSERT: the row with the next primary key.
CustomerRow(id, c) == [id |-> id, name |-> c.name, email |-> c.email, phone |-> c.phone]

\* The call arrives and runs the duplicate check.
CCCheck(p, pool) ==
    /\ pc[p] = "ready"
    /\ \E in \in pool :
        /\ inp' = [inp EXCEPT ![p] = in]
        /\ LET taken == CreateCustomerEmailTaken(VisibleCustomers(p), in.email)
           IN  /\ loc' = [loc EXCEPT ![p] = [taken |-> taken]]
               /\ IF taken
                  THEN Return(p, CustomerFailed(<<Msg("Email already exists", <<>>)>>))
                  ELSE /\ pc' = [pc EXCEPT ![p] = "cc_clean"]
                       /\ res' = [res EXCEPT ![p] = NoResult]
    /\ UNCHANGED <<store, clock, tx, bg>>

\* cust.full_clean()
CCClean(p) ==
    /\ pc[p] = "cc_clean"
    /\ LET errs == CustomerFullClean(VisibleCustomers(p), NewCustomer(inp[p]))
       IN  IF errs # <<>>
           THEN Return(p, CustomerFailed(errs))
           ELSE /\ pc' = [pc EXCEPT ![p] = "cc_save"]
                /\ UNCHANGED res
    /\ UNCHANGED <<store, clock, inp, loc, tx, bg>>

\* cust.save()
CCSave(p) ==
    /\ pc[p] = "cc_save"
    /\ LET c == NewCustomer(inp[p])
       IN  IF UniqueEmailViolated(VisibleCustomers(p), c.email)
           THEN /\ Return(p, CustomerFailed(<<Msg("Email already exists", <<>>)>>))
                /\ UNCHANGED <<customers, custSeq>>
           ELSE /\ custSeq' = custSeq + 1
                /\ customers' = Append(customers, CustomerRow(custSeq + 1, c))
                /\ Return(p, CustomerCreated(CustomerRow(custSeq + 1, c)))
    /\ UNCHANGED <<products, orders, links, orderSeq, clock, inp, loc, tx, bg>>

----------------------------------------------------------------------------
(* BulkCreateCustomers.mutate *)

WholeBatchAtomic == FALSE

\* `with transaction.atomic(): cust.save()` sits inside the loop: each row
\* is committed when its own block is left.
PerElementAtomic == TRUE

\* Customer.objects.filter(email__iexact=row.email).exists()
BulkEmailTaken(rows, email) ==
    \E i \in DOMAIN rows : Lower(rows[i].email) = Lower(email)

\* for idx, row in enumerate(input): the loop goes on to the next element
\* after `continue` and after either except clause.
BulkNextIndex(idx, n, failed) == idx + 1

\* The element at Python index idx.
BulkRow(p) == inp[p][loc[p].idx + 1]

\* input = graphene.List(CreateCustomerInput, required=True): the elements of
\* the list are nullable, and a null element arrives as None.
NullRow == [null |-> TRUE]

\* An exception no except clause of the mutation catches leaves it.
Fault(op, exc) == [op |-> op, fault |-> exc]

Faulted(r) == "fault" \in DOMAIN r

BulkGoOn(p, created, errs, failed) ==
    LET n == Len(inp[p])
        nxt == BulkNextIndex(loc[p].idx, n, failed)
    IN  /\ loc' = [loc EXCEPT ![p] = [idx |-> nxt, created |-> created, errs |-> errs]]
        /\ pc' = [pc EXCEPT ![p] = IF nxt >= n THEN "bk_return" ELSE "bk_check"]

\* created, errs = [], []
BulkStart(p, pool) ==
    /\ pc[p] = "ready"
    /\ \E batch \in pool :
        /\ inp' = [inp EXCEPT ![p] = batch]
        /\ pc' = [pc EXCEPT ![p] = IF batch = <<>> THEN "bk_return" ELSE "bk_check"]
    /\ loc' = [loc EXCEPT ![p] = [idx |-> 0, created |-> <<>>, errs |-> <<>>]]
    /\ res' = [res EXCEPT ![p] = NoResult]
    /\ UNCHANGED <<store, clock, tx, bg>>

BulkCheck(p) ==
    /\ pc[p] = "bk_check"
    /\ IF BulkRow(p) = NullRow
       THEN \* row.email of None
            /\ Return(p, Fault("BulkCreateCustomers", "AttributeError"))
            /\ UNCHANGED loc
       ELSE IF BulkEmailTaken(VisibleCustomers(p), BulkRow(p).email)
       THEN /\ BulkGoOn(p, loc[p].created,
                        Append(loc[p].errs,
                               Indexed(loc[p].idx,
                                       Msg("Email already exists: ", BulkRow(p).email))),
                        TRUE)
            /\ UNCHANGED res
       ELSE /\ pc' = [pc EXCEPT ![p] = "bk_clean"]
            /\ UNCHANGED <<loc, res>>
    /\ UNCHANGED <<store, clock, inp, tx, bg>>

BulkClean(p) ==
    /\ pc[p] = "bk_clean"
    /\ LET errs == CustomerFullClean(VisibleCustomers(p), NewCustomer(BulkRow(p)))
       IN  IF errs # <<>>
           THEN BulkGoOn(p, loc[p].created,
                         loc[p].errs
                         \o [i \in DOMAIN errs |-> Indexed(loc[p].idx, errs[i])],
                         TRUE)
           ELSE /\ pc' = [pc EXCEPT ![p] = "bk_save"]
                /\ UNCHANGED loc
    /\ UNCHANGED <<store, clock, inp, tx, res, bg>>

BulkSave(p) ==
    /\ pc[p] = "bk_save"
    /\ LET c == NewCustomer(BulkRow(p))
           row == CustomerRow(custSeq + 1, c)
       IN  IF UniqueEmailViolated(VisibleCustomers(p), c.email)
           THEN /\ BulkGoOn(p, loc[p].created,
                            Append(loc[p].errs,
                                   Indexed(loc[p].idx,
                                           Msg("Email already exists: ", c.email))),
                            TRUE)
                /\ UNCHANGED <<customers, custSeq, tx>>
           ELSE /\ custSeq' = custSeq + 1
                /\ IF PerElementAtomic
                   THEN /\ customers' = Append(customers \o tx[p].customers, row)
                        /\ tx' = [tx EXCEPT ![p].customers = <<>>]
                   ELSE /\ tx' = [tx EXCEPT ![p].customers = Append(@, row)]
                        /\ UNCHANGED customers
                /\ BulkGoOn(p, Append(loc[p].created, row), loc[p].errs, FALSE)
    /\ UNCHANGED <<products, orders, links, orderSeq, clock, inp, res, bg>>

\* return BulkCreateCustomers(customers=created, errors=errs)
BulkReturn(p) ==
    /\ pc[p] = "bk_return"
    /\ customers' = customers \o tx[p].customers
    /\ tx' = [tx EXCEPT ![p].customers = <<>>]
    /\ Return(p, [op |-> "BulkCreateCustomers", customers |-> loc[p].created,
                  errors |-> loc[p].errs])
    /\ UNCHANGED <<custSeq, products, orders, links, orderSeq, clock, inp, loc, bg>>

----------------------------------------------------------------------------
(* Primary keys and id strings *)

\* str(pk): the decimal digits of a primary key.
RECURSIVE Str(_)
Str(n) == IF n < 10 THEN <<48 + n>> ELSE Str(n \div 10) \o <<48 + (n % 10)>>

\* Ids are opaque strings at the API: an id string names the row whose
\* primary key is written that way, and names no row otherwise.
PkIs(row, id) == Str(row.id) = id

\* A lookup by pk=<id string>.
PkLookup(rows, id) == {i \in DOMAIN rows : PkIs(rows[i], id)}

Range(q) == {q[i] : i \in DOMAIN q}

Min(a, b) == IF a < b THEN a ELSE b

\* Python's order of str: by code point, a proper prefix first.
LexLess(a, b) ==
    \E k \in 1 .. (Min(Len(a), Len(b)) + 1) :
        /\ \A i \in 1 .. (k - 1) : a[i] = b[i]
        /\ \/ k > Len(a) /\ k <= Len(b)
           \/ k <= Len(a) /\ k <= Len(b) /\ a[k] < b[k]

\* The order of the numbers the ids spell: shorter first, then by digits.
NumLess(a, b) == Len(a) < Len(b) \/ (Len(a) = Len(b) /\ LexLess(a, b))

RECURSIVE NumericSortedIds(_)
NumericSortedIds(S) ==
    IF S = {} THEN <<>>
    ELSE LET m == CHOOSE x \in S : \A y \in S \ {x} : NumLess(x, y)
         IN  <<m>> \o NumericSortedIds(S \ {m})

\* sorted(missing)
RECURSIVE SortedIds(_)
SortedIds(S) ==
    IF S = {} THEN <<>>
    ELSE LET m == CHOOSE x \in S : \A y \in S \ {x} : LexLess(x, y)
         IN  <<m>> \o SortedIds(S \ {m})

\* ', '.join(ids)
RECURSIVE JoinIds(_)
JoinIds(q) ==
    IF q = <<>> THEN <<>>
    ELSE IF Len(q) = 1 THEN q[1]
    ELSE q[1] \o <<44, 32>> \o JoinIds(Tail(q))

----------------------------------------------------------------------------
(* CreateProduct.mutate *)

\* A price argument is a float with at most two decimal places, held in
\* cents, or NaN.  A stock argument is <<n>>, or <<>> for None.

FirstProblemOnly(in) ==
    IF in.price.nan THEN <<Msg("price must be a valid number", <<>>)>>
    ELSE IF in.price.cents <= 0 THEN <<Msg("price must be > 0", <<>>)>>
    ELSE IF in.stock # <<>> /\ in.stock[1] < 0 THEN <<Msg("stock must be >= 0", <<>>)>>
    ELSE <<>>

\* stock = input.stock if input.stock is not None else 0
StockOf(in) == IF in.stock = <<>> THEN 0 ELSE in.stock[1]

\* problems: Decimal(str(input.price)) <= 0 raises for NaN; then the stock.
ProductProblems(in) ==
    (IF in.price.nan THEN <<Msg("price must be a valid number", <<>>)>>
     ELSE IF in.price.cents <= 0 THEN <<Msg("price must be > 0", <<>>)>>
     ELSE <<>>)
    \o (IF StockOf(in) < 0 THEN <<Msg("stock must be >= 0", <<>>)>> ELSE <<>>)

\* p.full_clean() of Product(name=..., price=..., stock=...)
ProductFullClean(prod) ==
    IF prod.name = <<>> THEN <<Human("name", "This field cannot be blank.")>> ELSE <<>>

ProductResult(prod, errs) == [op |-> "CreateProduct", product |-> prod, errors |-> errs]

CreateProduct(p, pool) ==
    /\ pc[p] = "ready"
    /\ \E in \in pool :
        /\ inp' = [inp EXCEPT ![p] = in]
        /\ LET problems == ProductProblems(in)
               row == [id |-> Len(products) + 1, name |-> in.name,
                       price |-> in.price.cents, stock |-> StockOf(in)]
           IN  IF problems # <<>>
               THEN /\ Return(p, ProductResult(None, problems))
                    /\ UNCHANGED products
               ELSE IF ProductFullClean(row) # <<>>
               THEN /\ Return(p, ProductResult(None, ProductFullClean(row)))
                    /\ UNCHANGED products
               ELSE /\ products' = Append(products, row)
                    /\ Return(p, ProductResult(row, <<>>))
    /\ UNCHANGED <<customers, custSeq, orders, links, orderSeq, clock, loc, tx, bg>>

----------------------------------------------------------------------------
(* CreateOrder.mutate *)

NotAtomic == FALSE

\* `with transaction.atomic():` around the three writes of an order.
OrderAtomic == TRUE

OrderResult(o, errs) == [op |-> "CreateOrder", order |-> o, errors |-> errs]

\* The committed orders and links, and the writes of p's open transaction.
VisibleOrders(p) == orders \o tx[p].orders

ChecksProductsFirst(in, found) ==
    IF in.product_ids = <<>> THEN <<Msg("At least one product must be selected", <<>>)>>
    ELSE IF found = {} THEN <<Msg("Invalid customer ID: ", in.customer_id)>>
    ELSE <<>>

\* The first two checks: the customer, then the emptiness of productIds.
\* `found` is the result of Customer.objects.get(pk=input.customer_id).
OrderPreconditions(in, found) ==
    IF found = {} THEN <<Msg("Invalid customer ID: ", in.customer_id)>>
    ELSE IF in.product_ids = <<>>
         THEN <<Msg("At least one product must be selected", <<>>)>>
    ELSE <<>>

\* list(Product.objects.filter(pk__in=input.product_ids)): each matching
\* row once, in table order.
ProductsIn(ids) ==
    LET hit == {i \in DOMAIN products : \E k \in DOMAIN ids : PkIs(products[i], ids[k])}
        F[k \in 0 .. Len(products)] ==
            IF k = 0 THEN <<>>
            ELSE IF k \in hit THEN Append(F[k - 1], products[k]) ELSE F[k - 1]
    IN  F[Len(products)]

\* set(map(str, input.product_ids)) - set(str(p.pk) for p in products)
MissingIds(ids, prods) == Range(ids) \ {Str(prods[i].id) : i \in DOMAIN prods}

MissingMessageNumeric(missing) ==
    Msg("Invalid product ID(s): ", JoinIds(NumericSortedIds(missing)))

\* f"Invalid product ID(s): {', '.join(sorted(missing))}"
MissingMessage(missing) ==
    Msg("Invalid product ID(s): ", JoinIds(SortedIds(missing)))

RECURSIVE SumPrices(_)
SumPrices(prods) ==
    IF prods = <<>> THEN 0 ELSE Head(prods).price + SumPrices(Tail(prods))

\* One price per id of the argument list, repeated ids included.
TotalPerId(p) ==
    LET ids == inp[p].product_ids
        F[k \in 0 .. Len(ids)] ==
            IF k = 0 THEN 0
            ELSE F[k - 1]
                 + SumPrices(SelectSeq(loc[p].products,
                                       LAMBDA r : Str(r.id) = ids[k]))
    IN  F[Len(ids)]

\* sum((p.price for p in products), Decimal("0.00"))
OrderTotal(p) == SumPrices(loc[p].products)

\* Customer.objects.get(pk=...), then `if not input.product_ids`.
COCustomer(p, pool) ==
    /\ pc[p] = "ready"
    /\ \E in \in pool :
        /\ inp' = [inp EXCEPT ![p] = in]
        /\ LET found == PkLookup(customers, in.customer_id)
               errs == OrderPreconditions(in, found)
           IN  IF errs # <<>>
               THEN /\ Return(p, OrderResult(None, errs))
                    /\ UNCHANGED loc
               ELSE /\ loc' = [loc EXCEPT ![p] =
                                [customer |-> customers[CHOOSE i \in found : TRUE],
                                 products |-> <<>>, order |-> None]]
                    /\ pc' = [pc EXCEPT ![p] = "co_products"]
                    /\ res' = [res EXCEPT ![p] = NoResult]
    /\ UNCHANGED <<store, clock, tx, bg>>

\* products = list(...); missing = ...; if missing: return the error
COProducts(p) ==
    /\ pc[p] = "co_products"
    /\ LET prods == ProductsIn(inp[p].product_ids)
           missing == MissingIds(inp[p].product_ids, prods)
       IN  IF missing # {}
           THEN /\ Return(p, OrderResult(None, <<MissingMessage(missing)>>))
                /\ UNCHANGED loc
           ELSE /\ loc' = [loc EXCEPT ![p].products = prods]
                /\ pc' = [pc EXCEPT ![p] = "co_insert"]
                /\ UNCHANGED res
    /\ UNCHANGED <<store, clock, inp, tx, bg>>

\* odt = input.order_date or timezone.now(); Order.objects.create(...)
COInsert(p) ==
    /\ pc[p] = "co_insert"
    /\ LET odt == IF inp[p].order_date = 0 THEN clock ELSE inp[p].order_date
           row == [id |-> orderSeq + 1, customer |-> loc[p].customer.id,
                   order_date |-> odt, total_amount |-> 0]
       IN  /\ orderSeq' = orderSeq + 1
           /\ loc' = [loc EXCEPT ![p].order = row]
           /\ IF OrderAtomic
              THEN /\ tx' = [tx EXCEPT ![p].orders = Append(@, row)]
                   /\ UNCHANGED orders
              ELSE /\ orders' = Append(orders, row)
                   /\ UNCHANGED tx
    /\ clock' = clock + 1
    /\ pc' = [pc EXCEPT ![p] = "co_set"]
    /\ UNCHANGED <<customers, custSeq, products, links, inp, res, bg>>

\* order.products.set(products)
COSet(p) ==
    /\ pc[p] = "co_set"
    /\ LET new == {<<loc[p].order.id, loc[p].products[i].id>> :
                        i \in DOMAIN loc[p].products}
       IN  IF OrderAtomic
           THEN /\ tx' = [tx EXCEPT ![p].links = @ \cup new]
                /\ UNCHANGED links
           ELSE /\ links' = links \cup new
                /\ UNCHANGED tx
    /\ pc' = [pc EXCEPT ![p] = "co_total"]
    /\ UNCHANGED <<customers, custSeq, products, orders, orderSeq, clock, inp, loc, res, bg>>

\* order.total_amount = total; order.save(); the atomic block is left and
\* its writes are committed; return CreateOrder(order=order, errors=[])
COSave(p) ==
    /\ pc[p] = "co_total"
    /\ LET saved == [loc[p].order EXCEPT !.total_amount = OrderTotal(p)]
           upd(rows) == [i \in DOMAIN rows |->
                            IF rows[i].id = saved.id THEN saved ELSE rows[i]]
       IN  /\ IF OrderAtomic
              THEN /\ orders' = orders \o upd(tx[p].orders)
                   /\ links' = links \cup tx[p].links
                   /\ tx' = [tx EXCEPT ![p].orders = <<>>, ![p].links = {}]
              ELSE /\ orders' = upd(orders)
                   /\ UNCHANGED <<links, tx>>
           /\ loc' = [loc EXCEPT ![p].order = saved]
           /\ Return(p, OrderResult(saved, <<>>))
    /\ UNCHANGED <<customers, custSeq, products, orderSeq, clock, inp, bg>>

----------------------------------------------------------------------------
(* Background jobs: crm/cron.py, crm/tasks.py, cron_jobs/send_order_reminders.py.
   The scheduler starts a run of a job when its previous run has ended; a run
   calls the GraphQL endpoint once and writes to the job's log file. *)

MaxRuns == 3

JobNames ==
    {"log_crm_heartbeat", "update_low_stock", "generate_crm_report",
     "send_order_reminders"}

\* What client.execute(...) gives: a response carrying `items` entries (kind
\* "expected"), a response of another shape, or an exception of the transport
\* or of the server.
Response(kind, items) == [fault |-> "", kind |-> kind, items |-> items]

Raised(exc) == [fault |-> exc, kind |-> "", items |-> 0]

Replies ==
    { Response("expected", 0), Response("expected", 2), Response("unexpected", 0),
      Raised("ConnectionError"), Raised("TransportQueryError") }

NoReply == Response("", 0)

\* A line of a log file: the run that wrote it (its timestamp), the literal
\* text and the value formatted into it.
Line(ts, text, arg) == [ts |-> ts, text |-> text, arg |-> arg]

Idle(runs, reply, exit) == [pc |-> "idle", runs |-> runs, reply |-> reply, exit |-> exit]

Running(runs, reply) == [pc |-> "log", runs |-> runs, reply |-> reply, exit |-> "none"]

RECURSIVE SumRuns(_)
SumRuns(J) ==
    IF J = {} THEN 0
    ELSE LET j == CHOOSE x \in J : TRUE IN jobs[j].runs + SumRuns(J \ {j})

\* The scheduler (cron, celery beat) starts the next run of job j, when its
\* previous run has ended; MaxRuns runs are started in all.
Due(j) == jobs[j].pc = "idle" /\ SumRuns(JobNames) < MaxRuns

\* with open(LOG, "a") as f: f.write(line) for each line
AppendLines(j, lines) == logs' = [logs EXCEPT ![j] = @ \o lines]

\* log_crm_heartbeat: the try block around client.execute, and its except.
HeartbeatStatus(reply) ==
    IF reply.fault # "" THEN Line(0, " | GraphQL: ERR ", reply.fault)
    ELSE IF reply.kind = "expected" THEN Line(0, " | GraphQL: OK", "")
    ELSE Line(0, " | GraphQL: Unexpected response", "")

HeartbeatExecute ==
    LET j == "log_crm_heartbeat"
    IN  /\ Due(j)
        /\ \E reply \in {r \in Replies : r.items = 0} :
            jobs' = [jobs EXCEPT ![j] = Running(@.runs + 1, reply)]
        /\ UNCHANGED <<store, clock, pc, inp, loc, tx, res, logs>>

HeartbeatLog ==
    LET j == "log_crm_heartbeat"
        st == HeartbeatStatus(jobs[j].reply)
    IN  /\ jobs[j].pc = "log"
        /\ AppendLines(j, <<Line(jobs[j].runs, "CRM is alive" \o st.text, st.arg)>>)
        /\ jobs' = [jobs EXCEPT ![j] = Idle(@.runs, @.reply, "returned")]
        /\ UNCHANGED <<store, clock, pc, inp, loc, tx, res>>

\* update_low_stock: client.execute in a try block whose except clause writes
\* the error line and returns.
LowStockExecute ==
    LET j == "update_low_stock"
    IN  /\ Due(j)
        /\ \E reply \in Replies :
            IF reply.fault # ""
            THEN /\ AppendLines(j, <<Line(jobs[j].runs + 1, "ERROR: ", reply.fault)>>)
                 /\ jobs' = [jobs EXCEPT ![j] = Idle(@.runs + 1, reply, "returned")]
            ELSE /\ jobs' = [jobs EXCEPT ![j] = Running(@.runs + 1, reply)]
                 /\ UNCHANGED logs
        /\ UNCHANGED <<store, clock, pc, inp, loc, tx, res>>

\* products = payload.get("products") or []: one line per restocked product,
\* or the line that says there was none.
LowStockLog ==
    LET j == "update_low_stock"
        n == IF jobs[j].reply.kind = "expected" THEN jobs[j].reply.items ELSE 0
    IN  /\ jobs[j].pc = "log"
        /\ AppendLines(j, IF n = 0
                          THEN <<Line(jobs[j].runs, "No low-stock products to restock.", "")>>
                          ELSE [k \in 1 .. n |-> Line(jobs[j].runs, "Restocked: ", ToString(k))])
        /\ jobs' = [jobs EXCEPT ![j] = Idle(@.runs, @.reply, "returned")]
        /\ UNCHANGED <<store, clock, pc, inp, loc, tx, res>>

\* generate_crm_report: the try block builds the report line, its except
\* clause the error line; the line is written after it.
ReportLine(ts, reply) ==
    IF reply.fault # "" THEN Line(ts, " - Report ERROR: ", reply.fault)
    ELSE Line(ts, " - Report: ",
              ToString(IF reply.kind = "expected" THEN reply.items ELSE 0))

ReportExecute ==
    LET j == "generate_crm_report"
    IN  /\ Due(j)
        /\ \E reply \in Replies :
            jobs' = [jobs EXCEPT ![j] = Running(@.runs + 1, reply)]
        /\ UNCHANGED <<store, clock, pc, inp, loc, tx, res, logs>>

ReportLog ==
    LET j == "generate_crm_report"
    IN  /\ jobs[j].pc = "log"
        /\ AppendLines(j, <<ReportLine(jobs[j].runs, jobs[j].reply)>>)
        /\ jobs' = [jobs EXCEPT ![j] = Idle(@.runs, @.reply, "returned")]
        /\ UNCHANGED <<store, clock, pc, inp, loc, tx, res>>

\* send_order_reminders: main() calls client.execute outside any try block;
\* the handler around main() prints to stderr and raises again.
RemindersExecute ==
    LET j == "send_order_reminders"
    IN  /\ Due(j)
        /\ \E reply \in Replies :
            IF reply.fault # ""
            THEN jobs' = [jobs EXCEPT ![j] = Idle(@.runs + 1, reply, "raised")]
            ELSE jobs' = [jobs EXCEPT ![j] = Running(@.runs + 1, reply)]
        /\ UNCHANGED <<store, clock, pc, inp, loc, tx, res, logs>>

\* for edge in edges: f.write(f"[{ts}] OrderID={order_id} -> {email}\n")
RemindersLog ==
    LET j == "send_order_reminders"
        n == IF jobs[j].reply.kind = "expected" THEN jobs[j].reply.items ELSE 0
    IN  /\ jobs[j].pc = "log"
        /\ AppendLines(j, [k \in 1 .. n |-> Line(jobs[j].runs, "OrderID=", ToString(k))])
        /\ jobs' = [jobs EXCEPT ![j] = Idle(@.runs, @.reply, "returned")]
        /\ UNCHANGED <<store, clock, pc, inp, loc, tx, res>>

NoJobs == [j \in JobNames |-> Idle(0, NoReply, "none")]

NoLogs == [j \in JobNames |-> <<>>]

----------------------------------------------------------------------------
(* Queries: Query.resolve_all_products and Query.resolve_all_orders, and the
   filter set the connection field applies to what the resolver returns.
   An optional text argument is a text or PyNone, an optional number <<n>> or
   <<>>, an optional boolean <<b>> or <<>>. *)

\* needle occurs in hay
Contains(hay, needle) ==
    \E i \in 0 .. (Len(hay) - Len(needle)) :
        \A k \in 1 .. Len(needle) : hay[i + k] = needle[k]

\* field__icontains=value
IContains(hay, needle) == Contains(Lower(hay), Lower(needle))

\* `if filter.get("x"):` for a text argument: None and "" are both skipped.
TextGiven(t) == t # PyNone /\ t # <<>>

NoLowStock(rows, value) == rows

\* ProductFilter.filter_low_stock
filter_low_stock(rows, value) ==
    IF value THEN SelectSeq(rows, LAMBDA r : r.stock < 10) ELSE rows

\* ProductFilter applied to a queryset with the arguments of the field; a
\* filter whose argument is None or "" is skipped.
ProductFilterQs(rows, a) ==
    LET q1 == IF TextGiven(a.name)
              THEN SelectSeq(rows, LAMBDA r : IContains(r.name, a.name)) ELSE rows
        q2 == IF a.price__gte # <<>>
              THEN SelectSeq(q1, LAMBDA r : r.price >= a.price__gte[1]) ELSE q1
        q3 == IF a.price__lte # <<>>
              THEN SelectSeq(q2, LAMBDA r : r.price <= a.price__lte[1]) ELSE q2
        q4 == IF a.stock__gte # <<>>
              THEN SelectSeq(q3, LAMBDA r : r.stock >= a.stock__gte[1]) ELSE q3
        q5 == IF a.stock__lte # <<>>
              THEN SelectSeq(q4, LAMBDA r : r.stock <= a.stock__lte[1]) ELSE q4
    IN  IF a.low_stock # <<>> THEN filter_low_stock(q5, a.low_stock[1]) ELSE q5

\* The `if filter:` block of resolve_all_products.
ProductFilterInputQs(rows, f) ==
    LET q1 == IF TextGiven(f.name_icontains)
              THEN SelectSeq(rows, LAMBDA r : IContains(r.name, f.name_icontains))
              ELSE rows
        q2 == IF f.price_gte # <<>>
              THEN SelectSeq(q1, LAMBDA r : r.price >= f.price_gte[1]) ELSE q1
        q3 == IF f.price_lte # <<>>
              THEN SelectSeq(q2, LAMBDA r : r.price <= f.price_lte[1]) ELSE q2
        q4 == IF f.stock_gte # <<>>
              THEN SelectSeq(q3, LAMBDA r : r.stock >= f.stock_gte[1]) ELSE q3
    IN  IF f.stock_lte # <<>>
        THEN SelectSeq(q4, LAMBDA r : r.stock <= f.stock_lte[1]) ELSE q4

\* Safelists for orderBy
PRODUCT_ORDERABLE ==
    {"name", "-name", "price", "-price", "stock", "-stock", "created_at", "-created_at"}

ORDER_ORDERABLE ==
    {"order_date", "-order_date", "total_amount", "-total_amount",
     "created_at", "-created_at"}

AnyKey(allowed, key) == key # ""

\* `order_by and order_by in {...}`
SortKeyApplies(allowed, key) == key # "" /\ key \in allowed

\* The columns a table can be ordered by.
ProductColumns == {"id", "name", "price", "stock", "created_at"}

OrderColumns == {"id", "customer", "order_date", "total_amount", "created_at"}

\* order_by("-x") is descending x.
Descending(columns, key) == \E c \in columns : key = "-" \o c

KeyColumns(columns, key) == {c \in columns : key = c \/ key = "-" \o c}

\* The value a row is ordered by; created_at is set when the row is inserted,
\* as its primary key is.
SortValue(row, column) ==
    IF column = "created_at" THEN row.id ELSE row[column]

ValueLess(column, x, y) == IF column = "name" THEN LexLess(x, y) ELSE x < y

Perms(n) == {q \in [1 .. n -> 1 .. n] : \A i, j \in 1 .. n : i # j => q[i] # q[j]}

\* The results ORDER BY can give: every arrangement of the rows in which no
\* row comes before one it is greater than (descending: smaller than); the
\* order of rows with equal values is the store's choice.
Sorted(rows, column, desc) ==
    { [i \in 1 .. Len(rows) |-> rows[q[i]]] :
        q \in { q \in Perms(Len(rows)) :
                  \A i, j \in 1 .. Len(rows) :
                     i < j =>
                       LET a == SortValue(rows[q[i]], column)
                           b == SortValue(rows[q[j]], column)
                       IN  IF desc THEN ~ValueLess(column, a, b)
                           ELSE ~ValueLess(column, b, a) } }

\* A query result, and the FieldError of order_by on a name that is no column.
Rows(op, rows) == [op |-> op, rows |-> rows]

\* qs.order_by(order_by) when the key passes the safelist; the outcomes the
\* query can have.
OrderBy(op, rows, columns, allowed, key) ==
    IF ~SortKeyApplies(allowed, key) THEN {Rows(op, rows)}
    ELSE IF KeyColumns(columns, key) = {} THEN {Fault(op, "FieldError")}
    ELSE LET c == CHOOSE x \in KeyColumns(columns, key) : TRUE
         IN  {Rows(op, r) : r \in Sorted(rows, c, Descending(columns, key))}

\* resolve_all_products, then the ProductFilter of the connection field.
AllProductsResults(rq) ==
    LET filtered == ProductFilterInputQs(products, rq.filter)
        named == OrderBy("allProducts", filtered, ProductColumns, PRODUCT_ORDERABLE,
                         rq.order_by)
    IN  { IF Faulted(r) THEN r ELSE Rows(r.op, ProductFilterQs(r.rows, rq.args)) :
            r \in named }

AllProducts(p, pool) ==
    /\ pc[p] = "ready"
    /\ \E rq \in pool :
        /\ inp' = [inp EXCEPT ![p] = rq]
        /\ \E r \in AllProductsResults(rq) : Return(p, r)
    /\ UNCHANGED <<store, clock, loc, tx, bg>>

\* The customer of an order, and its linked products.
CustomerOf(o) == customers[CHOOSE i \in DOMAIN customers : customers[i].id = o.customer]

ProductsOf(o) ==
    {products[i] : i \in {k \in DOMAIN products : <<o.id, products[k].id>> \in links}}

\* The `if filter:` block of resolve_all_orders; a row matching through
\* several products is returned once (distinct()).
OrderFilterInputQs(rows, f) ==
    LET q1 == IF f.total_amount_gte # <<>>
              THEN SelectSeq(rows, LAMBDA o : o.total_amount >= f.total_amount_gte[1])
              ELSE rows
        q2 == IF f.total_amount_lte # <<>>
              THEN SelectSeq(q1, LAMBDA o : o.total_amount <= f.total_amount_lte[1])
              ELSE q1
        q3 == IF f.order_date_gte # <<>>
              THEN SelectSeq(q2, LAMBDA o : o.order_date >= f.order_date_gte[1]) ELSE q2
        q4 == IF f.order_date_lte # <<>>
              THEN SelectSeq(q3, LAMBDA o : o.order_date <= f.order_date_lte[1]) ELSE q3
        q5 == IF TextGiven(f.customer_name)
              THEN SelectSeq(q4, LAMBDA o : IContains(CustomerOf(o).name, f.customer_name))
              ELSE q4
        q6 == IF TextGiven(f.product_name)
              THEN SelectSeq(q5, LAMBDA o :
                      \E pr \in ProductsOf(o) : IContains(pr.name, f.product_name))
              ELSE q5
    IN  IF TextGiven(f.product_id)
        THEN SelectSeq(q6, LAMBDA o : \E pr \in ProductsOf(o) : PkIs(pr, f.product_id))
        ELSE q6

\* resolve_all_orders; the arguments of OrderFilter itself are not given.
AllOrdersResults(rq) ==
    OrderBy("allOrders", OrderFilterInputQs(orders, rq.filter), OrderColumns,
            ORDER_ORDERABLE, rq.order_by)

AllOrders(p, pool) ==
    /\ pc[p] = "ready"
    /\ \E rq \in pool :
        /\ inp' = [inp EXCEPT ![p] = rq]
        /\ \E r \in AllOrdersResults(rq) : Return(p, r)
    /\ UNCHANGED <<store, clock, loc, tx, bg>>

----------------------------------------------------------------------------
(* Inputs of the customer mutations *)

TxtAl == <<65, 108>>
TxtEmail_a == <<97, 64, 120>>
TxtEmail_A == <<65, 64, 120>>
TxtEmail_b == <<98, 64, 120>>
TxtEmail_bad == <<97, 120>>
TxtPhonePlus == <<43, 49>>
TxtPhoneDash == <<49, 45, 50, 45, 51>>
TxtPhoneBad == <<120>>

CustomerInputs ==
    { [name |-> TxtAl, email |-> TxtEmail_a, phone |-> PyNone],
      [name |-> TxtAl, email |-> TxtEmail_A, phone |-> TxtPhonePlus],
      [name |-> TxtAl, email |-> TxtEmail_b, phone |-> TxtPhoneDash],
      [name |-> <<>>, email |-> TxtEmail_a, phone |-> <<>>],
      [name |-> TxtAl, email |-> TxtEmail_bad, phone |-> PyNone],
      [name |-> TxtAl, email |-> <<>>, phone |-> PyNone],
      [name |-> <<>>, email |-> TxtEmail_A, phone |-> TxtPhoneBad] }

RECURSIVE SeqsUpTo(_, _)
SeqsUpTo(S, n) ==
    IF n = 0 THEN {<<>>}
    ELSE LET shorter == SeqsUpTo(S, n - 1)
         IN  shorter \cup {Append(q, x) : q \in shorter, x \in S}

BulkInputs ==
    { [name |-> TxtAl, email |-> TxtEmail_a, phone |-> PyNone],
      [name |-> TxtAl, email |-> TxtEmail_A, phone |-> TxtPhonePlus],
      [name |-> TxtAl, email |-> TxtEmail_b, phone |-> TxtPhoneDash],
      [name |-> <<>>, email |-> TxtEmail_bad, phone |-> <<>>],
      NullRow }

Batches == SeqsUpTo(BulkInputs, MaxBatch)

----------------------------------------------------------------------------
(* The customer mutations, running concurrently *)

\* The store a run starts from: empty, or already holding one customer.
InitialCustomers ==
    { <<>>,
      <<CustomerRow(1, [name |-> TxtAl, email |-> TxtEmail_A, phone |-> PyNone])>> }

Init ==
    /\ customers \in InitialCustomers
    /\ custSeq = Len(customers)
    /\ products = <<>>
    /\ orders = <<>>
    /\ links = {}
    /\ orderSeq = 0
    /\ clock = 1
    /\ pc = [p \in Workers |-> "ready"]
    /\ inp = [p \in Workers |-> <<>>]
    /\ loc = [p \in Workers |-> <<>>]
    /\ tx = [p \in Workers |-> NoTx]
    /\ res = [p \in Workers |-> NoResult]
    /\ jobs = NoJobs
    /\ logs = NoLogs

Next ==
    \/ \E p \in Workers : CCCheck(p, CustomerInputs)
    \/ \E p \in Workers : CCClean(p)
    \/ \E p \in Workers : CCSave(p)
    \/ BulkStart("w1", Batches)
    \/ \E p \in Workers : BulkCheck(p)
    \/ \E p \in Workers : BulkClean(p)
    \/ \E p \in Workers : BulkSave(p)
    \/ \E p \in Workers : BulkReturn(p)

Spec == Init /\ [][Next]_vars

----------------------------------------------------------------------------
(* The seeded store and the inputs of the product and order mutations *)

TxtAlice == <<65, 108, 105, 99, 101>>
TxtBob == <<66, 111, 98>>
TxtCarol == <<67, 97, 114, 111, 108>>
TxtExampleCom == <<64, 101, 120, 97, 109, 112, 108, 101, 46, 99, 111, 109>>
TxtLaptop == <<76, 97, 112, 116, 111, 112>>
TxtMouse == <<77, 111, 117, 115, 101>>
TxtKeyboard == <<75, 101, 121, 98, 111, 97, 114, 100>>
TxtPen == <<80, 101, 110>>

\* seed_db.run() on an empty database.
SeedCustomers ==
    << CustomerRow(1, [name |-> TxtAlice, email |-> Lower(TxtAlice) \o TxtExampleCom,
                       phone |-> <<43, 49, 50, 51, 52, 53, 54, 55, 56, 57, 48>>]),
       CustomerRow(2, [name |-> TxtBob, email |-> Lower(TxtBob) \o TxtExampleCom,
                       phone |-> PyNone]),
       CustomerRow(3, [name |-> TxtCarol, email |-> Lower(TxtCarol) \o TxtExampleCom,
                       phone |-> <<49, 50, 51, 45, 52, 53, 54, 45, 55, 56, 57, 48>>]) >>

SeedProducts ==
    << [id |-> 1, name |-> TxtLaptop, price |-> 99999, stock |-> 10],
       [id |-> 2, name |-> TxtMouse, price |-> 2550, stock |-> 100],
       [id |-> 3, name |-> TxtKeyboard, price |-> 4500, stock |-> 50] >>

SeedOrders ==
    << [id |-> 1, customer |-> 1, order_date |-> 1,
        total_amount |-> SeedProducts[1].price + SeedProducts[2].price] >>

SeedLinks == {<<1, 1>>, <<1, 2>>}

Price(cents) == [nan |-> FALSE, cents |-> cents]

ProductInputs ==
    { [name |-> TxtPen, price |-> Price(199), stock |-> <<5>>],
      [name |-> TxtPen, price |-> Price(199), stock |-> <<>>],
      [name |-> TxtPen, price |-> Price(-500), stock |-> <<-3>>],
      [name |-> TxtPen, price |-> Price(0), stock |-> <<2>>],
      [name |-> TxtPen, price |-> Price(199), stock |-> <<-1>>],
      [name |-> <<>>, price |-> Price(199), stock |-> <<0>>],
      [name |-> TxtPen, price |-> [nan |-> TRUE, cents |-> 0], stock |-> <<-3>>] }

\* "1", "2", "4", "9", "10"
ProductIdPool == {Str(1), Str(2), Str(4), Str(9), Str(10)}

\* "1", "9", "x"
CustomerIdPool == {Str(1), Str(9), <<120>>}

ProductIdLists == SeqsUpTo(ProductIdPool, MaxIds)

OrderInputs ==
    {[customer_id |-> c, product_ids |-> ids, order_date |-> d] :
        c \in CustomerIdPool, ids \in ProductIdLists, d \in {0, 5}}

SecondOrderInputs ==
    { [customer_id |-> Str(2), product_ids |-> <<Str(4), Str(3)>>, order_date |-> 0],
      [customer_id |-> Str(2), product_ids |-> <<Str(3)>>, order_date |-> 0] }

----------------------------------------------------------------------------
(* The product and order mutations, running concurrently on the seeded store *)

InitSeeded ==
    /\ customers = SeedCustomers
    /\ custSeq = Len(SeedCustomers)
    /\ products = SeedProducts
    /\ orders = SeedOrders
    /\ links = SeedLinks
    /\ orderSeq = Len(SeedOrders)
    /\ clock = 2
    /\ pc = [p \in Workers |-> "ready"]
    /\ inp = [p \in Workers |-> <<>>]
    /\ loc = [p \in Workers |-> <<>>]
    /\ tx = [p \in Workers |-> NoTx]
    /\ res = [p \in Workers |-> NoResult]
    /\ jobs = NoJobs
    /\ logs = NoLogs

NextOrders ==
    \/ COCustomer("w1", OrderInputs)
    \/ COCustomer("w2", SecondOrderInputs)
    \/ \E p \in Workers : COProducts(p)
    \/ \E p \in Workers : COInsert(p)
    \/ \E p \in Workers : COSet(p)
    \/ \E p \in Workers : COSave(p)
    \/ CreateProduct("w2", ProductInputs)
    \/ CCCheck("w2", CustomerInputs)
    \/ CCClean("w2")
    \/ CCSave("w2")

SpecOrders == InitSeeded /\ [][NextOrders]_vars

----------------------------------------------------------------------------
(* The background jobs, each run by its scheduler *)

NextJobs ==
    \/ HeartbeatExecute
    \/ HeartbeatLog
    \/ LowStockExecute
    \/ LowStockLog
    \/ ReportExecute
    \/ ReportLog
    \/ RemindersExecute
    \/ RemindersLog

SpecJobs == InitSeeded /\ [][NextJobs]_vars

----------------------------------------------------------------------------
(* Queries on the seeded store, while another request adds a product or an
   order *)

TxtTop == <<116, 111, 112>>
TxtTOP == <<84, 79, 80>>
TxtDesktop == <<68, 101, 115, 107, 116, 111, 112>>
TxtALI == <<65, 76, 73>>
TxtO == <<111>>

NoProductFilter ==
    [name_icontains |-> PyNone, price_gte |-> <<>>, price_lte |-> <<>>,
     stock_gte |-> <<>>, stock_lte |-> <<>>]

NoProductArgs ==
    [name |-> PyNone, price__gte |-> <<>>, price__lte |-> <<>>,
     stock__gte |-> <<>>, stock__lte |-> <<>>, low_stock |-> <<>>]

ProductFilters ==
    { NoProductFilter,
      [NoProductFilter EXCEPT !.name_icontains = TxtTOP],
      [NoProductFilter EXCEPT !.name_icontains = <<>>],
      [NoProductFilter EXCEPT !.price_gte = <<2550>>, !.price_lte = <<50000>>],
      [NoProductFilter EXCEPT !.stock_lte = <<0>>],
      [NoProductFilter EXCEPT !.stock_gte = <<10>>] }

ProductArgs ==
    { NoProductArgs,
      [NoProductArgs EXCEPT !.low_stock = <<TRUE>>],
      [NoProductArgs EXCEPT !.low_stock = <<FALSE>>],
      [NoProductArgs EXCEPT !.low_stock = <<TRUE>>, !.name = TxtTop],
      [NoProductArgs EXCEPT !.price__lte = <<4500>>, !.stock__gte = <<5>>] }

ProductQueries ==
    {[filter |-> f, args |-> a, order_by |-> k] :
        f \in ProductFilters, a \in ProductArgs, k \in {"", "-price", "name", "bogus"}}

NoOrderFilter ==
    [total_amount_gte |-> <<>>, total_amount_lte |-> <<>>, order_date_gte |-> <<>>,
     order_date_lte |-> <<>>, customer_name |-> PyNone, product_name |-> PyNone,
     product_id |-> PyNone]

OrderFilters ==
    { NoOrderFilter,
      [NoOrderFilter EXCEPT !.total_amount_gte = <<4500>>, !.total_amount_lte = <<102549>>],
      [NoOrderFilter EXCEPT !.order_date_gte = <<1>>, !.order_date_lte = <<2>>],
      [NoOrderFilter EXCEPT !.customer_name = TxtALI],
      [NoOrderFilter EXCEPT !.product_name = TxtO],
      [NoOrderFilter EXCEPT !.product_id = Str(3)] }

OrderSortKeys ==
    ORDER_ORDERABLE \cup {"", "bogus", "id", "customer", "-Total_Amount", "price"}

OrderQueries == {[filter |-> f, order_by |-> k] : f \in OrderFilters, k \in OrderSortKeys}

\* The products and orders the other request adds.
CatalogInputs ==
    { [name |-> TxtDesktop, price |-> Price(50000), stock |-> <<3>>],
      [name |-> TxtPen, price |-> Price(199), stock |-> <<>>],
      [name |-> TxtTop, price |-> Price(2550), stock |-> <<10>>] }

CatalogOrderInputs ==
    { [customer_id |-> Str(2), product_ids |-> <<Str(3)>>, order_date |-> 0],
      [customer_id |-> Str(1), product_ids |-> <<Str(3), Str(1)>>, order_date |-> 1],
      [customer_id |-> Str(3), product_ids |-> <<Str(2)>>, order_date |-> 5] }

NextQueries ==
    \/ \E p \in Workers : AllProducts(p, ProductQueries)
    \/ \E p \in Workers : AllOrders(p, OrderQueries)
    \/ CreateProduct("w2", CatalogInputs)
    \/ COCustomer("w2", CatalogOrderInputs)
    \/ COProducts("w2")
    \/ COInsert("w2")
    \/ COSet("w2")
    \/ COSave("w2")

SpecQueries == InitSeeded /\ [][NextQueries]_vars

----------------------------------------------------------------------------
(* Properties of the customer mutations *)

CCDone(p) == pc[p] = "done" /\ res[p].op = "CreateCustomer"

BulkDone(p) == pc[p] = "done" /\ res[p].op = "BulkCreateCustomers"

SameEmail(a, b) == Lower(a) = Lower(b)

EmailStored(email) == \E i \in DOMAIN customers : SameEmail(customers[i].email, email)

ValidCustomerInput(in) == CustomerFieldErrors(NewCustomer(in)) = <<>>

EmailExistsOnly == <<Msg("Email already exists", <<>>)>>

\* C1: no two stored customers have emails that are equal ignoring case,
\* whatever the interleaving of CreateCustomer and BulkCreateCustomers calls.
C1_NoDuplicateEmails ==
    \A i, j \in DOMAIN customers :
        i # j => ~SameEmail(customers[i].email, customers[j].email)

\* Two customers are stored, and a call whose email differs from a stored one
\* only in letter case has been turned down.
C1_Witness ==
    /\ Len(customers) >= 2
    /\ \E p \in Workers :
        /\ CCDone(p)
        /\ res[p].customer = None
        /\ \E i \in DOMAIN customers :
            /\ SameEmail(customers[i].email, inp[p].email)
            /\ customers[i].email # inp[p].email

\* C2 (as claimed): of two concurrent CreateCustomer calls with the same email
\* (ignoring case) and valid input, against a store not holding that email,
\* exactly one returns the customer with "Customer created", the other a null
\* customer with errors = ["Email already exists"], and one row is added.
C2_OneSuccessOneEmailExists ==
    \A p, q \in Workers :
        ( /\ p # q
          /\ CCDone(p) /\ CCDone(q)
          /\ SameEmail(inp[p].email, inp[q].email)
          /\ ValidCustomerInput(inp[p]) /\ ValidCustomerInput(inp[q])
          /\ ~loc[p].taken /\ ~loc[q].taken )
        => /\ (res[p].customer # None) # (res[q].customer # None)
           /\ \A w \in {p, q} :
                IF res[w].customer # None
                THEN res[w].message = "Customer created" /\ res[w].errors = <<>>
                ELSE res[w].errors = EmailExistsOnly
           /\ Cardinality({i \in DOMAIN customers :
                              SameEmail(customers[i].email, inp[p].email)}) = 1

\* C3: a CreateCustomer call whose email is stored (ignoring case) when it runs
\* its duplicate check returns a null customer with errors exactly
\* ["Email already exists"] and stores nothing; a call with valid input fails
\* only if its email is stored, and a successful call has stored its row.
C3_DuplicateRejected ==
    \A p \in Workers :
        ( /\ pc[p] = "ready"
          /\ pc'[p] \in {"cc_clean", "cc_save", "done"}
          /\ EmailStored(inp'[p].email) )
        => /\ pc'[p] = "done"
           /\ res'[p] = CustomerFailed(EmailExistsOnly)
           /\ customers' = customers

C3_ValidSucceeds ==
    \A p \in Workers :
        CCDone(p) =>
            IF res[p].customer = None
            THEN /\ res[p].errors # <<>>
                 /\ ValidCustomerInput(inp[p]) => EmailStored(inp[p].email)
            ELSE /\ res[p].errors = <<>>
                 /\ res[p].message = "Customer created"
                 /\ \E i \in DOMAIN customers : customers[i] = res[p].customer
                 /\ res[p].customer.email = inp[p].email
                 /\ Cardinality({i \in DOMAIN customers :
                                    SameEmail(customers[i].email, inp[p].email)}) = 1

C3_CreateThenReject == []C3_ValidSucceeds /\ [][C3_DuplicateRejected]_vars

\* One call has created a customer; a later one with the same email in another
\* letter case, and an invalid name and phone besides, got the single error.
C3_Witness ==
    \E p, q \in Workers :
        /\ CCDone(p) /\ CCDone(q)
        /\ res[p].customer # None
        /\ res[q] = CustomerFailed(EmailExistsOnly)
        /\ SameEmail(inp[p].email, inp[q].email)
        /\ inp[p].email # inp[q].email
        /\ Len(CustomerFieldErrors(NewCustomer(inp[q]))) >= 2

ErrorIndices(r) == {r.errors[k].idx : k \in DOMAIN r.errors}

\* The k-th smallest element of a set of numbers.
KthSmallest(S, k) == CHOOSE x \in S : Cardinality({y \in S : y < x}) = k - 1

\* A batch that returned: every input index is either created or has at least
\* one error carrying its 0-based index, never both; customers holds the
\* created elements in increasing index order; and an element fails only for a
\* reason of its own (it is invalid, or its email is stored).
PartialSuccess(p) ==
    LET n == Len(inp[p])
        bad == ErrorIndices(res[p])
        good == (0 .. (n - 1)) \ bad
    IN  /\ bad \subseteq 0 .. (n - 1)
        /\ Len(res[p].customers) = Cardinality(good)
        /\ \A k \in DOMAIN res[p].customers :
            LET in == inp[p][KthSmallest(good, k) + 1]
                row == res[p].customers[k]
            IN  /\ row.name = in.name
                /\ row.email = in.email
                /\ row.phone = OrNone(in.phone)
                /\ ValidCustomerInput(in)
                /\ \E i \in DOMAIN customers : customers[i] = row
        /\ \A i \in bad :
            \/ ~ValidCustomerInput(inp[p][i + 1])
            \/ EmailStored(inp[p][i + 1].email)

\* C4 (as claimed): for every input list BulkCreateCustomers returns a result
\* in which customers is exactly the created elements, in input order, and
\* every element not created has an error carrying its index, whatever the
\* other elements are.
C4_PartialSuccess ==
    \A p \in Workers :
        BulkDone(p) => ~Faulted(res[p]) /\ PartialSuccess(p)

\* What holds of the code: a batch that returns a result returns a partial
\* success (a batch with a null element returns none).
BulkReturnedPartialSuccess ==
    \A p \in Workers :
        (BulkDone(p) /\ ~Faulted(res[p])) => PartialSuccess(p)

\* The example of the specification: index 1 fails, indices 0 and 2 are created.
BulkExampleReached ==
    \E p \in Workers :
        /\ BulkDone(p)
        /\ ~Faulted(res[p])
        /\ Len(inp[p]) = 3
        /\ ErrorIndices(res[p]) = {1}
        /\ Len(res[p].customers) = 2
        /\ res[p].customers[1].email = inp[p][1].email
        /\ res[p].customers[2].email = inp[p][3].email

InBulk(p) == pc[p] \in {"bk_check", "bk_clean", "bk_save", "bk_return"}

\* C5: between two elements of a batch no transaction is open and every
\* customer created so far is committed, so visible to every other request;
\* and a committed row stays stored whatever happens later.
C5_CommittedBetweenElements ==
    \A p \in Workers :
        InBulk(p) =>
            /\ tx[p].customers = <<>>
            /\ \A k \in DOMAIN loc[p].created :
                \E i \in DOMAIN customers : customers[i] = loc[p].created[k]

C5_NeverRolledBack ==
    /\ Len(customers') >= Len(customers)
    /\ \A i \in DOMAIN customers : customers'[i] = customers[i]

C5_PerElementCommit == []C5_CommittedBetweenElements /\ [][C5_NeverRolledBack]_vars

\* A batch has stored its first element and then failed on a later one, with
\* an exception that ended the call: the first element is still stored.
C5_Witness ==
    \E p \in Workers :
        /\ BulkDone(p)
        /\ Faulted(res[p])
        /\ Len(loc[p].created) >= 1
        /\ loc[p].idx >= 1
        /\ \E i \in DOMAIN customers : customers[i] = loc[p].created[1]

\* Element i of the batch of p is the first valid element with its email, and
\* no other request and no earlier state has stored that email.
FirstWithEmail(p, i) ==
    /\ ValidCustomerInput(inp[p][i + 1])
    /\ \A h \in 0 .. (i - 1) :
        SameEmail(inp[p][h + 1].email, inp[p][i + 1].email)
            => ~ValidCustomerInput(inp[p][h + 1])
    /\ \A k \in DOMAIN customers :
        SameEmail(customers[k].email, inp[p][i + 1].email)
            => customers[k] \in Range(res[p].customers)

----------------------------------------------------------------------------
(* Properties of the product and order mutations *)

CODone(p) == pc[p] = "done" /\ res[p].op = "CreateOrder"

CPDone(p) == pc[p] = "done" /\ res[p].op = "CreateProduct"

\* The products an order is linked to, by the committed links.
LinkedIds(oid) == {l[2] : l \in {x \in links : x[1] = oid}}

PriceOf(pid) == products[CHOOSE i \in DOMAIN products : products[i].id = pid].price

RECURSIVE SumOfPrices(_)
SumOfPrices(S) ==
    IF S = {} THEN 0
    ELSE LET x == CHOOSE y \in S : TRUE
         IN  PriceOf(x) + SumOfPrices(S \ {x})

ProductStored(id) == \E i \in DOMAIN products : Str(products[i].id) = id

CustomerStored(id) == \E i \in DOMAIN customers : Str(customers[i].id) = id

StoreUnchanged == UNCHANGED <<store, tx>>

\* C6: an order returned by CreateOrder is stored with a non-empty set of
\* linked products, the products productIds names, and a total equal to the
\* sum of their prices, each counted once; and so is every stored order.
C6_TotalIsSumOfLinked ==
    /\ \A p \in Workers :
        (CODone(p) /\ res[p].order # None) =>
            LET o == res[p].order
                linked == LinkedIds(o.id)
            IN  /\ \E i \in DOMAIN orders : orders[i] = o
                /\ linked # {}
                /\ {Str(pid) : pid \in linked} = Range(inp[p].product_ids)
                /\ o.total_amount = SumOfPrices(linked)
    /\ \A i \in DOMAIN orders :
        /\ LinkedIds(orders[i].id) # {}
        /\ orders[i].total_amount = SumOfPrices(LinkedIds(orders[i].id))

\* The example of the specification: 999.99 + 25.50 = 1025.49.
C6_Witness ==
    \E p \in Workers :
        /\ CODone(p)
        /\ res[p].order # None
        /\ inp[p].product_ids = <<Str(1), Str(2)>>
        /\ res[p].order.total_amount = 102549
        /\ LinkedIds(res[p].order.id) = {1, 2}

\* C7: an order is never visible without its links or with the placeholder
\* total, and once visible its row and its links do not change: row, links and
\* total appear together.
C7_NoPartialOrderVisible ==
    \A i \in DOMAIN orders :
        /\ LinkedIds(orders[i].id) # {}
        /\ orders[i].total_amount # 0

C7_AppearsComplete ==
    \A i \in DOMAIN orders :
        /\ i \in DOMAIN orders'
        /\ orders'[i] = orders[i]
        /\ LinkedIds(orders[i].id)' = LinkedIds(orders[i].id)

C7_OrderIndivisible == []C7_NoPartialOrderVisible /\ [][C7_AppearsComplete]_vars

\* A call is inside its transaction: its order row, still with total 0.00, and
\* its links exist, and no reader sees them.
C7_Witness ==
    \E p \in Workers :
        /\ pc[p] = "co_total"
        /\ Len(tx[p].orders) = 1
        /\ tx[p].orders[1].total_amount = 0
        /\ tx[p].links # {}
        /\ \A i \in DOMAIN orders : orders[i].id # tx[p].orders[1].id
        /\ \A l \in links : l[1] # tx[p].orders[1].id

\* C8: when the product ids are checked, the ids reported are those no stored
\* product has; if there is one, the call returns a null order with the single
\* error "Invalid product ID(s): " and those ids, each once, in lexicographic
\* order, joined by ", ", and the store is unchanged; otherwise it goes on.
C8_MissingStep ==
    \A p \in Workers :
        (pc[p] = "co_products" /\ pc'[p] # "co_products") =>
            LET missing == {id \in Range(inp[p].product_ids) : ~ProductStored(id)}
            IN  IF missing # {}
                THEN /\ pc'[p] = "done"
                     /\ res'[p].op = "CreateOrder"
                     /\ res'[p].order = None
                     /\ Len(res'[p].errors) = 1
                     /\ res'[p].errors[1].text = "Invalid product ID(s): "
                     /\ \E q \in [1 .. Cardinality(missing) -> missing] :
                            /\ \A i, j \in DOMAIN q : i < j => LexLess(q[i], q[j])
                            /\ res'[p].errors[1].arg = JoinIds(q)
                     /\ StoreUnchanged
                ELSE /\ pc'[p] = "co_insert"
                     /\ {Str(loc'[p].products[i].id) : i \in DOMAIN loc'[p].products}
                            = Range(inp[p].product_ids)

C8_InvalidProductIds == [][C8_MissingStep]_vars

\* One valid id among two missing ones, whose lexicographic order ("10, 9")
\* is not their numeric order; nothing was created.
C8_Witness ==
    \E p \in Workers :
        /\ CODone(p)
        /\ res[p].order = None
        /\ Str(1) \in Range(inp[p].product_ids)
        /\ res[p].errors = <<Msg("Invalid product ID(s): ",
                                 Str(10) \o <<44, 32>> \o Str(9))>>
        /\ orders = SeedOrders
        /\ links = SeedLinks

\* C9: the first step of CreateOrder returns exactly "Invalid customer ID: <id>"
\* when no customer has the id, whatever productIds is; otherwise exactly
\* "At least one product must be selected" when productIds is empty; only
\* otherwise does it go on to the product ids.  An error result has a null
\* order, and the step stores nothing.
C9_FirstStep ==
    \A p \in Workers :
        ( /\ pc[p] = "ready"
          /\ \/ pc'[p] = "co_products"
             \/ pc'[p] = "done" /\ res'[p].op = "CreateOrder" )
        => /\ StoreUnchanged
           /\ IF ~CustomerStored(inp'[p].customer_id)
              THEN /\ pc'[p] = "done"
                   /\ res'[p] = OrderResult(None, <<Msg("Invalid customer ID: ",
                                                         inp'[p].customer_id)>>)
              ELSE IF inp'[p].product_ids = <<>>
              THEN /\ pc'[p] = "done"
                   /\ res'[p] = OrderResult(None,
                          <<Msg("At least one product must be selected", <<>>)>>)
              ELSE pc'[p] = "co_products"

C9_OneError ==
    \A p \in Workers :
        CODone(p) =>
            IF res[p].order = None
            THEN Len(res[p].errors) = 1
            ELSE res[p].errors = <<>>

C9_CheckOrder == []C9_OneError /\ [][C9_FirstStep]_vars

\* An id that names no customer, with an empty productIds: the customer error
\* alone.
C9_Witness ==
    \E p \in Workers :
        /\ CODone(p)
        /\ inp[p].customer_id = <<120>>
        /\ inp[p].product_ids = <<>>
        /\ res[p] = OrderResult(None, <<Msg("Invalid customer ID: ", <<120>>)>>)
        /\ orders = SeedOrders

\* C10: CreateProduct returns both "price must be > 0" and "stock must be >= 0",
\* in that order, when both are wrong; a result with errors has a null product
\* and leaves the products unchanged; a result without errors has added exactly
\* the returned product, with stock 0 when stock was omitted.
C10_Result ==
    \A p \in Workers :
        CPDone(p) =>
            LET in == inp[p]
                r == res[p]
            IN  /\ ( /\ ~in.price.nan
                     /\ in.price.cents <= 0
                     /\ in.stock # <<>>
                     /\ in.stock[1] < 0 )
                   => r.errors = <<Msg("price must be > 0", <<>>),
                                   Msg("stock must be >= 0", <<>>)>>
                /\ (r.errors # <<>>) <=> (r.product = None)
                /\ r.product # None =>
                    /\ \E i \in DOMAIN products : products[i] = r.product
                    /\ r.product.stock = (IF in.stock = <<>> THEN 0 ELSE in.stock[1])
                    /\ r.product.price > 0
                    /\ r.product.stock >= 0

C10_Step ==
    \A p \in Workers :
        (pc[p] = "ready" /\ pc'[p] = "done" /\ res'[p].op = "CreateProduct") =>
            IF res'[p].errors # <<>>
            THEN products' = products
            ELSE products' = Append(products, res'[p].product)

C10_ProductValidation == []C10_Result /\ [][C10_Step]_vars

\* price = -5, stock = -3: both messages, nothing stored.
C10_Witness ==
    \E p \in Workers :
        /\ CPDone(p)
        /\ inp[p].price.cents = -500
        /\ inp[p].stock = <<-3>>
        /\ res[p] = ProductResult(None, <<Msg("price must be > 0", <<>>),
                                          Msg("stock must be >= 0", <<>>)>>)
        /\ products = SeedProducts

----------------------------------------------------------------------------
(* Properties of the background jobs *)

\* The texts of the lines the jobs write for a failed call.
ErrorTexts == {"CRM is alive | GraphQL: ERR ", "ERROR: ", " - Report ERROR: "}

RunEnded(j) == jobs[j].pc = "idle" /\ jobs[j].runs > 0

FaultedRun(j) == RunEnded(j) /\ jobs[j].reply.fault # ""

\* The last line of the job's log is an error line of its last run, naming
\* the exception.
LoggedError(j) ==
    /\ logs[j] # <<>>
    /\ LET l == logs[j][Len(logs[j])]
       IN  /\ l.ts = jobs[j].runs
           /\ l.text \in ErrorTexts
           /\ l.arg = jobs[j].reply.fault

CaughtFault(j) == FaultedRun(j) => (jobs[j].exit = "returned" /\ LoggedError(j))

\* C11 (as claimed): a run of any of the four jobs whose API call raised has
\* returned normally and has appended an error line to the job's log file.
C11_JobsCatchFaults == \A j \in JobNames : CaughtFault(j)

\* What holds of the code: the heartbeat, the restock job and the report catch
\* the fault and log it; and every job can be run again after a failed run.
OtherJobsCatchFaults ==
    /\ \A j \in JobNames \ {"send_order_reminders"} : CaughtFault(j)
    /\ \A j \in JobNames : jobs[j].exit = "raised" => jobs[j].pc = "idle"

\* The order-reminder scan has failed twice, wrote nothing, and ended each
\* time with the exception.
RemindersRaisedReached ==
    LET j == "send_order_reminders"
    IN  /\ FaultedRun(j)
        /\ jobs[j].runs = 2
        /\ jobs[j].exit = "raised"
        /\ logs[j] = <<>>

----------------------------------------------------------------------------
(* Properties of the queries *)

QueryStep(p, op) == pc[p] = "ready" /\ pc'[p] = "done" /\ res'[p].op = op

\* A product satisfies every filter field that is set, low_stock left aside.
ProductSatisfies(r, rq) ==
    /\ TextGiven(rq.filter.name_icontains) => IContains(r.name, rq.filter.name_icontains)
    /\ TextGiven(rq.args.name) => IContains(r.name, rq.args.name)
    /\ \A v \in Range(rq.filter.price_gte) \cup Range(rq.args.price__gte) : r.price >= v
    /\ \A v \in Range(rq.filter.price_lte) \cup Range(rq.args.price__lte) : r.price <= v
    /\ \A v \in Range(rq.filter.stock_gte) \cup Range(rq.args.stock__gte) : r.stock >= v
    /\ \A v \in Range(rq.filter.stock_lte) \cup Range(rq.args.stock__lte) : r.stock <= v

\* C12: a product query returns each product at most once, and exactly the
\* stored products that satisfy every set filter field; with low_stock = true
\* that is those of them with stock < 10, alone or combined with a
\* name-contains value.  (low_stock = false is not stated by the claim: the
\* result then lies between the products with stock >= 10 and all products
\* that satisfy the other fields.)
C12_Step ==
    \A p \in Workers :
        QueryStep(p, "allProducts") =>
            /\ ~Faulted(res'[p])
            /\ LET rq == inp'[p]
                   got == Range(res'[p].rows)
                   others == {products[i] : i \in {k \in DOMAIN products :
                                                      ProductSatisfies(products[k], rq)}}
               IN  /\ Cardinality(got) = Len(res'[p].rows)
                   /\ IF rq.args.low_stock = <<TRUE>>
                      THEN got = {r \in others : r.stock < 10}
                      ELSE IF rq.args.low_stock = <<>>
                      THEN got = others
                      ELSE {r \in others : r.stock >= 10} \subseteq got /\ got \subseteq others

C12_ProductFilter == [][C12_Step]_vars

\* low_stock = true with name-contains "top": the Desktop (stock 3) alone,
\* though the Laptop (stock 10) holds "top" too.
C12_Witness ==
    \E p \in Workers :
        /\ pc[p] = "done"
        /\ res[p].op = "allProducts"
        /\ inp[p].args.low_stock = <<TRUE>>
        /\ inp[p].args.name = TxtTop
        /\ inp[p].filter = NoProductFilter
        /\ Len(res[p].rows) = 1
        /\ res[p].rows[1].name = TxtDesktop
        /\ res[p].rows[1].stock = 3
        /\ Len(products) = 4

\* The allow-list of the claim, and the field and direction a key names.
OrderSortFields == {"order_date", "total_amount", "created_at"}

OrderKeyAllowed(key) == \E f \in OrderSortFields : key = f \/ key = "-" \o f

\* The result is in the order of the key: ascending, or descending after "-".
InKeyOrder(rows, key) ==
    \E f \in OrderSortFields :
        \/ /\ key = f
           /\ \A i, j \in DOMAIN rows :
                i < j => SortValue(rows[i], f) <= SortValue(rows[j], f)
        \/ /\ key = "-" \o f
           /\ \A i, j \in DOMAIN rows :
                i < j => SortValue(rows[i], f) >= SortValue(rows[j], f)

\* C13: an order query never raises; with a sort key outside the allow-list it
\* returns what the same query without a sort key returns, the matching orders
\* in stored order; with a key inside it returns the same orders, each once,
\* in the order of the key.
C13_Step ==
    \A p \in Workers :
        QueryStep(p, "allOrders") =>
            LET rq == inp'[p]
                plain == AllOrdersResults([rq EXCEPT !.order_by = ""])
            IN  /\ ~Faulted(res'[p])
                /\ \A r \in plain :
                    /\ ~Faulted(r)
                    /\ \A i, j \in DOMAIN r.rows : i < j => r.rows[i].id < r.rows[j].id
                    /\ IF ~OrderKeyAllowed(rq.order_by)
                       THEN res'[p] = r
                       ELSE /\ Range(res'[p].rows) = Range(r.rows)
                            /\ Len(res'[p].rows) = Len(r.rows)
                            /\ InKeyOrder(res'[p].rows, rq.order_by)

C13_UnknownSortKeyIgnored == [][C13_Step]_vars

\* Two orders are stored, the second with the smaller total; a query with the
\* key "bogus" returned both in stored order, which no allowed key on
\* total_amount ascending would give.
C13_Witness ==
    /\ Len(orders) = 2
    /\ orders[2].total_amount < orders[1].total_amount
    /\ \E p \in Workers :
        /\ pc[p] = "done"
        /\ res[p].op = "allOrders"
        /\ ~Faulted(res[p])
        /\ inp[p].order_by = "bogus"
        /\ inp[p].filter = NoOrderFilter
        /\ res[p].rows = orders

====
